---------------------------- MODULE Spec2Model ----------------------------
(***************************************************************************)
(* A model of the OMS API convenience layer: the module-level functions of *)
(* src/src/oms/oms_utils.py (download_oms_data, subdivide_range, makeDF)   *)
(* and the class oms_fetch of src/src/oms/__init__.py (get_oms_data,       *)
(* get_oms_json, subdivide_range, the fields last_run_query and            *)
(* last_ls_query).                                                         *)
(*                                                                         *)
(* Python values are modelled as follows.                                  *)
(*   - An ordered dict is a sequence of <<key, value>> pairs (insertion    *)
(*     order is what .keys() and .values() iterate in).                    *)
(*   - A filter dict is a TLA+ function from its keys to strings.          *)
(*   - A response JSON {"data": [{"attributes": {...}}, ...]} is the       *)
(*     record [data |-> <<d1, ..., dn>>], di the ordered dict found under  *)
(*     "attributes" of record i.                                           *)
(*   - A DataFrame is [columns, index, rows]: the column labels, the row   *)
(*     labels, and one sequence of cell values per row, aligned with       *)
(*     columns.  dtypes are not modelled (convert_dtypes changes dtypes    *)
(*     only, never a value or a label).                                    *)
(*   - A raised exception is the status of the call's outcome.             *)
(***************************************************************************)
EXTENDS Integers, Sequences, FiniteSets, TLC

\* ------------------------------------------------------------------ bounds
\* subdivide_range is explored for starts 0..MaxStart, steps 1..MaxStep and
\* ends up to MaxSpan above the start.
MaxStart == 1
MaxStep == 3
MaxSpan == 7
\* The fetch operations are explored for ranges whose width is within 1 of
\* k * range_limit, k in 0..MaxChunks.
MaxChunks == 2
\* A response holds at most MaxRecords records, a filter list at most
\* MaxFilters filters, a tuple or list range argument at most MaxElems items.
MaxRecords == 2
MaxFilters == 2
MaxElems == 3

\* ------------------------------------------------------------- sequences
RECURSIVE SeqsUpTo(_, _)
\* All sequences over S of length at most n.
SeqsUpTo(S, n) ==
    IF n = 0 THEN {<<>>}
    ELSE LET shorter == SeqsUpTo(S, n - 1)
         IN  shorter \cup {Append(q, x) : q \in {r \in shorter : Len(r) = n - 1}, x \in S}

Range(f) == {f[i] : i \in DOMAIN f}

\* ------------------------------------------------------------ DataFrames
\* The cell pandas puts where a row has no value for a column.
NaN == -1

NoneDF == [isNone |-> TRUE, columns |-> <<>>, index |-> <<>>, rows |-> <<>>]

\* pd.DataFrame(data, columns=cols), data a list of rows: the default
\* RangeIndex 0..n-1 labels the rows.
DataFrame(data, cols) ==
    [isNone |-> FALSE, columns |-> cols,
     index |-> [i \in 1..Len(data) |-> i - 1], rows |-> data]

\* dict.keys() and dict.values() of an ordered dict, in insertion order.
Keys(d) == [i \in 1..Len(d) |-> d[i][1]]
Values(d) == [i \in 1..Len(d) |-> d[i][2]]

\* d[k] of an ordered dict that has key k.
Lookup(d, k) == d[CHOOSE i \in 1..Len(d) : d[i][1] = k][2]

\* ---------------------------------------------------------------- makeDF
\* makeDF with json["data"][0] read inside the loop where json["data"][i] is
\* meant: every row repeats the first record's values.
makeDFFirstRecord(json) ==
    IF Len(json.data) = 0
    THEN [status |-> "IndexError", df |-> NoneDF]
    ELSE [status |-> "ok",
          df |-> DataFrame([i \in 1..Len(json.data) |-> Values(json.data[1])],
                           Keys(json.data[1]))]

\* oms_utils.makeDF: the columns are the first record's keys; row i is
\* record i's values() in that record's own order.  json["data"][0] of an
\* empty list raises IndexError before anything is built.
makeDF(json) ==
    IF Len(json.data) = 0
    THEN [status |-> "IndexError", df |-> NoneDF]
    ELSE LET keys == Keys(json.data[1])
             datasetlist == [i \in 1..Len(json.data) |-> Values(json.data[i])]
         IN  [status |-> "ok", df |-> DataFrame(datasetlist, keys)]

\* ------------------------------------------------------- subdivide_range
RECURSIVE RangeLoop(_, _, _)
\* The body of subdivide_range run for start, start + step, ... while
\* start < newest_run, which is what range(oldest_run, newest_run, step)
\* yields for a positive step.
RangeLoop(start, newest_run, step) ==
    IF start >= newest_run THEN <<>>
    ELSE LET end == start + step
             this == IF end > newest_run THEN <<start, newest_run>>
                     ELSE <<start, end - 1>>
         IN  <<this>> \o RangeLoop(start + step, newest_run, step)

\* oms_utils.subdivide_range(oldest_run, newest_run, step).
subdivide_range(oldest_run, newest_run, step) ==
    RangeLoop(oldest_run, newest_run, step)


\* ----------------------------------------------------- range arguments
\* A range argument (runs, runnb) is tagged with its Python type.
NoneArg == [kind |-> "None", elems |-> <<>>]
IntArg(n) == [kind |-> "int", elems |-> <<n>>]
TupleArg(q) == [kind |-> "tuple", elems |-> q]
ListArg(q) == [kind |-> "list", elems |-> q]
StrArg == [kind |-> "str", elems |-> <<>>]

\* ----------------------------------------------------------- get_oms_json
\* The names attribute_name, value and operator that get_oms_json uses as
\* dict keys are globals imported from get_oms_data.py.
attribute_name == "attribute_name"
value == "value"
operator == "operator"

\* {attribute_name: "run_number", value: str(v), operator: op}
RunFilter(v, op) ==
    (attribute_name :> "run_number") @@ (value :> ToString(v)) @@ (operator :> op)

\* Lines 145-166: the filters derived from runnb, with the warnings printed.
\* runnb[0] or runnb[1] of a tuple or list that is too short raises
\* IndexError.
RunnbFilters(runnb) ==
    CASE runnb.kind = "None" ->
           [status |-> "ok", filters |-> <<>>, warnings |-> <<>>]
      [] runnb.kind = "int" ->
           [status |-> "ok", filters |-> <<RunFilter(runnb.elems[1], "EQ")>>,
            warnings |-> <<>>]
      [] runnb.kind \in {"tuple", "list"} ->
           IF Len(runnb.elems) < 2
           THEN [status |-> "IndexError", filters |-> <<>>, warnings |-> <<>>]
           ELSE [status |-> "ok",
                 filters |-> <<RunFilter(runnb.elems[1], "GE"),
                               RunFilter(runnb.elems[2], "LE")>>,
                 warnings |-> <<>>]
      [] OTHER ->
           [status |-> "ok", filters |-> <<>>,
            warnings |-> <<[about |-> "runnb", filter |-> <<>>]>>]

\* The test of line 171.  Both lists are sorted lists of distinct dict keys,
\* so they are equal exactly when the key sets are.
UnexpectedKeys(extrafilter) ==
    DOMAIN extrafilter # {attribute_name, value, operator}

\* The loop body with the append under an else: a filter with unexpected keys
\* is warned of and dropped.
ExtraFilterStepDropping(extrafilter, acc) ==
    IF UnexpectedKeys(extrafilter)
    THEN [filters |-> acc.filters,
          warnings |-> Append(acc.warnings,
                              [about |-> "filter", filter |-> <<extrafilter>>])]
    ELSE [filters |-> Append(acc.filters, extrafilter), warnings |-> acc.warnings]

\* Lines 170-178, one pass of the loop body: the filter is appended, with a
\* warning printed first when its keys are not the expected ones.
ExtraFilterStep(extrafilter, acc) ==
    [filters |-> Append(acc.filters, extrafilter),
     warnings |-> IF UnexpectedKeys(extrafilter)
                  THEN Append(acc.warnings,
                              [about |-> "filter", filter |-> <<extrafilter>>])
                  ELSE acc.warnings]

RECURSIVE ExtraFilterLoop(_, _)
\* Line 169: for extrafilter in extrafilters.
ExtraFilterLoop(extrafilters, acc) ==
    IF extrafilters = <<>> THEN acc
    ELSE ExtraFilterLoop(Tail(extrafilters),
                         ExtraFilterStep(Head(extrafilters), acc))

\* Lines 180-192: the query handed to the client.  q.filters is called only
\* for a non-empty list; q.attrs and q.paginate always.
ClientQuery(api_endpoint, filters, attributes, limit_entries) ==
    [endpoint |-> api_endpoint, filtersCalled |-> Len(filters) > 0,
     filters |-> filters, attrs |-> attributes,
     page |-> 1, per_page |-> limit_entries]

\* oms_fetch.get_oms_json; response is what the client's data().json() gives.
\* self.omsapi is the OMSAPI that __init__ built, so the check of line 136
\* passes; sort is None and extraargs empty, as get_oms_data calls it.
get_oms_json(api_endpoint, runnb, extrafilters, attributes, limit_entries, response) ==
    LET fromRunnb == RunnbFilters(runnb)
    IN  IF fromRunnb.status # "ok"
        THEN [status |-> fromRunnb.status, warnings |-> fromRunnb.warnings,
              client |-> <<>>, json |-> [data |-> <<>>]]
        ELSE LET all == ExtraFilterLoop(extrafilters,
                                        [filters |-> fromRunnb.filters,
                                         warnings |-> fromRunnb.warnings])
             IN  [status |-> "ok", warnings |-> all.warnings,
                  client |-> <<ClientQuery(api_endpoint, all.filters,
                                           attributes, limit_entries)>>,
                  json |-> response]


\* --------------------------------------------------------------- fetching
\* The level switch of get_oms_data (lines 61-68) and download_oms_data
\* (lines 48-55); an unrecognized level raises Exception.
Limits(attribs_level) ==
    CASE attribs_level = "runs" ->
           [status |-> "ok", limit_entries |-> 5000, range_limit |-> 5000]
      [] attribs_level = "lumisections" ->
           [status |-> "ok", limit_entries |-> 100000, range_limit |-> 1000]
      [] OTHER ->
           [status |-> "Exception", limit_entries |-> 0, range_limit |-> 0]

\* The comparison with >= for >: a range exactly range_limit wide is split.
NeedsSplitAtLimit(runs, range_limit) ==
    runs.elems[2] - runs.elems[1] >= range_limit

\* if runs[1] - runs[0] > range_limit
NeedsSplit(runs, range_limit) == runs.elems[2] - runs.elems[1] > range_limit

\* One Query Builder call as the fetch operation sees it: the call, then
\* its return.  The calls block, so the return is logged before whatever the
\* caller does next.
CallEvent(attribs_level, runs, limit_entries) ==
    [kind |-> "call", endpoint |-> attribs_level, runnb |-> runs,
     limit_entries |-> limit_entries, json |-> [data |-> <<>>]]
ReturnEvent(attribs_level, runs, limit_entries, json) ==
    [kind |-> "return", endpoint |-> attribs_level, runnb |-> runs,
     limit_entries |-> limit_entries, json |-> json]

\* The positions of new labels among old ones, for pd.concat.
NewColumns(old, new) == SelectSeq(new, LAMBDA c : c \notin Range(old))

\* A row of a frame with columns cols laid out under the columns all.
Realign(row, cols, all) ==
    [j \in 1..Len(all) |->
        IF \E i \in 1..Len(cols) : cols[i] = all[j]
        THEN row[CHOOSE i \in 1..Len(cols) : cols[i] = all[j]]
        ELSE NaN]

\* pd.concat([a, b]): the rows of a then those of b, each keeping its row
\* label; the columns are a's followed by those only b has.
Concat(a, b) ==
    LET all == a.columns \o NewColumns(a.columns, b.columns)
    IN  [isNone |-> FALSE, columns |-> all, index |-> a.index \o b.index,
         rows |-> [i \in 1..Len(a.rows) |-> Realign(a.rows[i], a.columns, all)]
                  \o [i \in 1..Len(b.rows) |-> Realign(b.rows[i], b.columns, all)]]

\* df.reset_index(inplace=True): the old row labels become the first column,
\* named "index", and the rows are labelled 0..n-1 anew.
ResetIndex(df) ==
    [isNone |-> FALSE, columns |-> <<"index">> \o df.columns,
     index |-> [i \in 1..Len(df.rows) |-> i - 1],
     rows |-> [i \in 1..Len(df.rows) |-> <<df.index[i]>> \o df.rows[i]]]

\* What a fetch operation has done so far: the exception raised if any, the
\* Query Builder calls and returns in order, the queries get_oms_json handed
\* to the client, how many responses were read, the frame built.
Started(df) ==
    [status |-> "ok", events |-> <<>>, client |-> <<>>, consumed |-> 0,
     json |-> [data |-> <<>>], df |-> df]

Raise(acc, exception) == [acc EXCEPT !.status = exception, !.df = NoneDF]

\* oms_fetch.get_oms_data's Query Builder call (lines 74-80, 85-91):
\* self.get_oms_json, whose response is the next one the service gives.
JsonCall(acc, attribs_level, runs, limit_entries, attribs, extrafilters, resps) ==
    LET called == Append(acc.events, CallEvent(attribs_level, runs, limit_entries))
        j == get_oms_json(attribs_level, runs, extrafilters, attribs,
                          limit_entries, resps[acc.consumed + 1])
    IN  IF j.status # "ok"
        THEN [Raise(acc, j.status) EXCEPT !.events = called]
        ELSE [acc EXCEPT
                !.events = Append(called, ReturnEvent(attribs_level, runs,
                                                      limit_entries, j.json)),
                !.client = @ \o j.client,
                !.consumed = @ + 1,
                !.json = j.json]

\* download_oms_data's Query Builder call (lines 61-68, 73-80): the function
\* get_oms_data of get_oms_data.py, which returns the service's response.
DataCall(acc, attribs_level, runs, limit_entries, attribs, extrafilters, resps) ==
    LET json == resps[acc.consumed + 1]
    IN  [acc EXCEPT
           !.events = @ \o <<CallEvent(attribs_level, runs, limit_entries),
                             ReturnEvent(attribs_level, runs, limit_entries, json)>>,
           !.consumed = @ + 1,
           !.json = json]

QueryCall(impl, acc, attribs_level, runs, limit_entries, attribs, extrafilters, resps) ==
    IF impl = "oms_fetch"
    THEN JsonCall(acc, attribs_level, runs, limit_entries, attribs, extrafilters, resps)
    ELSE DataCall(acc, attribs_level, runs, limit_entries, attribs, extrafilters, resps)

\* The else branch (lines 73-81 of oms_utils.py, 85-92 of __init__.py): one
\* call for the whole range, then oms_df = makeDF(oms_json).convert_dtypes().
FetchWhole(impl, attribs_level, runs, limit_entries, attribs, extrafilters, resps) ==
    LET got == QueryCall(impl, Started(NoneDF), attribs_level, runs, limit_entries,
                         attribs, extrafilters, resps)
        made == makeDF(got.json)
    IN  IF got.status # "ok" THEN got
        ELSE IF made.status # "ok" THEN Raise(got, made.status)
        ELSE [got EXCEPT !.df = made.df]

RECURSIVE FetchLoop(_, _, _, _, _, _, _, _)
\* for runs in run_range_list (lines 60-71 of oms_utils.py, 73-83 of
\* __init__.py): one call per sub-range, each result concatenated under the
\* frame built so far.  An exception ends the loop.
FetchLoop(impl, run_range_list, acc, attribs_level, limit_entries, attribs, extrafilters, resps) ==
    IF run_range_list = <<>> \/ acc.status # "ok" THEN acc
    ELSE LET runs == TupleArg(Head(run_range_list))
             got == QueryCall(impl, acc, attribs_level, runs, limit_entries,
                              attribs, extrafilters, resps)
             made == makeDF(got.json)
             next == IF got.status # "ok" THEN got
                     ELSE IF made.status # "ok" THEN Raise(got, made.status)
                     ELSE [got EXCEPT !.df = Concat(acc.df, made.df)]
         IN  FetchLoop(impl, Tail(run_range_list), next, attribs_level,
                       limit_entries, attribs, extrafilters, resps)

\* The if branch: oms_df = pd.DataFrame(columns=attribs), then the loop.
FetchSplit(impl, run_range_list, attribs_level, limit_entries, attribs, extrafilters, resps) ==
    FetchLoop(impl, run_range_list, Started(DataFrame(<<>>, attribs)),
              attribs_level, limit_entries, attribs, extrafilters, resps)

\* oms_df.reset_index(inplace=True), reached only without an exception.
Finish(acc) ==
    IF acc.status = "ok" THEN [acc EXCEPT !.df = ResetIndex(acc.df)] ELSE acc

\* oms_fetch.subdivide_range, a function of three parameters defined in the
\* class body and called as self.subdivide_range(a, b, step): the instance is
\* passed first, so four positional arguments reach three parameters and the
\* call raises TypeError.  (With fewer arguments oldest_run would be bound to
\* the instance, and range() would raise TypeError.)
oms_fetch_subdivide_range(self, args) ==
    LET positional == <<"self">> \o args
    IN  IF Len(positional) > 3 \/ Len(positional) < 2
        THEN [status |-> "TypeError", ranges |-> <<>>]
        ELSE [status |-> "TypeError", ranges |-> <<>>]

\* The two assignments exchanged: a runs frame lands in last_ls_query.
StoreLastSwapped(self, attribs_level, oms_df) ==
    IF attribs_level = "runs"
    THEN [self EXCEPT !.last_ls_query = oms_df]
    ELSE [self EXCEPT !.last_run_query = oms_df]

\* Lines 96-99: the frame is stored in the field of its level.
StoreLast(self, attribs_level, oms_df) ==
    IF attribs_level = "runs"
    THEN [self EXCEPT !.last_run_query = oms_df]
    ELSE [self EXCEPT !.last_ls_query = oms_df]

\* Line 57-58 of oms_fetch.get_oms_data: an int n becomes the pair (n, n).
AsPair(runs) ==
    IF runs.kind = "int" THEN TupleArg(<<runs.elems[1], runs.elems[1]>>) ELSE runs

\* Lines 60-92 of oms_fetch.get_oms_data, runs an int turned pair, a tuple or
\* a list.  Only a tuple gets its limits (or Exception for an unrecognized
\* level); line 70 then reads runs[1] and runs[0] (IndexError when missing)
\* and range_limit (UnboundLocalError when unassigned).
Fetched(self, runs, attribs_level, lim, attribs, extrafilters, resps) ==
    IF runs.kind = "tuple" /\ lim.status # "ok"
    THEN Raise(Started(NoneDF), lim.status)
    ELSE IF Len(runs.elems) < 2 THEN Raise(Started(NoneDF), "IndexError")
    ELSE IF runs.kind # "tuple" THEN Raise(Started(NoneDF), "UnboundLocalError")
    ELSE IF NeedsSplit(runs, lim.range_limit)
         THEN LET sub == oms_fetch_subdivide_range(
                             self, <<runs.elems[1], runs.elems[2], lim.range_limit>>)
              IN  IF sub.status # "ok" THEN Raise(Started(NoneDF), sub.status)
                  ELSE FetchSplit("oms_fetch", sub.ranges, attribs_level,
                                  lim.limit_entries, attribs, extrafilters, resps)
    ELSE FetchWhole("oms_fetch", attribs_level, runs, lim.limit_entries,
                    attribs, extrafilters, resps)

\* Lines 94-101: the index is reset, the frame stored and returned; an
\* exception raised earlier leaves the instance as it was.
Returned(self, attribs_level, done) ==
    [out |-> done,
     self |-> IF done.status = "ok"
              THEN StoreLast(self, attribs_level, done.df) ELSE self]

\* oms_fetch.get_oms_data(runs, attribs_level, attribs, extrafilters), runs
\* an int, a tuple or a list; resps are the service's responses in the order
\* asked for.  The outcome carries the instance as the call leaves it.
get_oms_data(self, runs, attribs_level, attribs, extrafilters, resps) ==
    Returned(self, attribs_level,
             Finish(Fetched(self, AsPair(runs), attribs_level,
                            Limits(attribs_level), attribs, extrafilters, resps)))

\* oms_utils.download_oms_data(runs, omsapi, attribs_level, attribs,
\* extrafilters), runs an int, a tuple or a list.  Only a tuple assigns
\* oms_df; a non-empty list reaches oms_data.append() with no argument
\* (TypeError); an int or an empty list reaches return oms_df with oms_df
\* unassigned (UnboundLocalError).
download_oms_data(runs, attribs_level, attribs, extrafilters, resps) ==
    LET lim == Limits(attribs_level)
        failed(e) == Raise(Started(NoneDF), e)
    IN  IF runs.kind = "tuple"
        THEN IF lim.status # "ok" THEN failed(lim.status)
             ELSE IF Len(runs.elems) < 2 THEN failed("IndexError")
             ELSE IF NeedsSplit(runs, lim.range_limit)
                  THEN Finish(FetchSplit("oms_utils",
                                         subdivide_range(runs.elems[1], runs.elems[2],
                                                         lim.range_limit),
                                         attribs_level, lim.limit_entries, attribs,
                                         extrafilters, resps))
             ELSE Finish(FetchWhole("oms_utils", attribs_level, runs,
                                    lim.limit_entries, attribs, extrafilters, resps))
        ELSE IF runs.kind = "list" /\ Len(runs.elems) > 0 THEN failed("TypeError")
        ELSE failed("UnboundLocalError")

\* ------------------------------------------------------------ the inputs
Levels == {"runs", "lumisections", "fills"}

\* Ordered dicts over the keys "a" and "b", in either insertion order, and
\* over "a" alone.
Dicts ==
    {<<<<"a", x>>, <<"b", 3>>>> : x \in 1..2}
      \cup {<<<<"b", 3>>, <<"a", x>>>> : x \in 1..2}
      \cup {<<<<"a", x>>>> : x \in 1..2}

KeySet(d) == {d[i][1] : i \in 1..Len(d)}

\* The well-formed responses: every record has the key set of the first.
Jsons ==
    {[data |-> q] : q \in {r \in SeqsUpTo(Dicts, MaxRecords) :
                             \A i \in 1..Len(r) : KeySet(r[i]) = KeySet(r[1])}}

\* What the service answers a fetch operation's calls with: nothing, or one
\* record.
ServiceJsons == {j \in Jsons : Len(j.data) <= 1 /\ (j.data # <<>> => Len(j.data[1]) = 2 /\ j.data[1][1][1] = "a")}

SomeJson == CHOOSE j \in ServiceJsons : j.data # <<>>

\* Filters with the expected keys, with one missing, with one too many.
GoodFilter ==
    (attribute_name :> "fill_number") @@ (value :> "1") @@ (operator :> "EQ")
ShortFilter == (attribute_name :> "fill_number") @@ (value :> "1")
LongFilter == GoodFilter @@ ("unit" :> "x")
FilterLists == SeqsUpTo({GoodFilter, ShortFilter, LongFilter}, MaxFilters)

Ascending(s, n) == [i \in 1..n |-> s + i - 1]

\* runnb of get_oms_json: None, an int, a tuple of 0..MaxElems items, a list
\* of two, a value of another type.
Runnbs ==
    {NoneArg, StrArg} \cup {IntArg(n) : n \in 0..MaxStart}
      \cup {TupleArg(Ascending(1, n)) : n \in 0..MaxElems}
      \cup {ListArg(Ascending(1, 2))}

\* The widths e - s a fetch is tried with: within 1 of k * range_limit, for
\* the multiples k in ks.
Widths(range_limit, ks) ==
    {w \in {k * range_limit + j : k \in ks, j \in {-1, 0, 1}} : w >= 0}

\* runs of a fetch operation at a level: ints, pairs (s, e) that start at 0
\* or at 3 and are up to a little more than range_limit wide, wider pairs
\* that start at 3, and a few arguments that are neither.
RunsArgs(attribs_level) ==
    {IntArg(n) : n \in {0, 3}}
      \cup {TupleArg(<<s, s + w>>) :
              s \in {0, 3}, w \in Widths(Limits(attribs_level).range_limit, 0..1)}
      \cup {TupleArg(<<3, 3 + w>>) :
              w \in Widths(Limits(attribs_level).range_limit, 2..MaxChunks)}
      \cup {TupleArg(<<0>>), ListArg(<<>>), ListArg(<<0, 1>>)}

\* The responses a call of a fetch operation reads: as many as it makes
\* calls when no response is empty, at most one of them other than SomeJson,
\* those left unread being SomeJson.
ResponsesFor(consumedIfFull) ==
    {[i \in 1..consumedIfFull |-> SomeJson]}
      \cup {[i \in 1..consumedIfFull |-> IF i = p THEN j ELSE SomeJson] :
              p \in 1..consumedIfFull, j \in ServiceJsons}
Plenty == [i \in 1..(MaxChunks + 2) |-> SomeJson]
Unread(resps, consumed) == \A i \in (consumed + 1)..Len(resps) : resps[i] = SomeJson

\* -------------------------------------------------------------- the state
VARIABLES
    last_run_query,   \* oms_fetch.last_run_query
    last_ls_query,    \* oms_fetch.last_ls_query
    returned,         \* per level, what get_oms_data last returned (NoneDF: nothing yet)
    op,               \* the operation called last
    args,             \* its arguments
    out               \* its outcome

vars == <<last_run_query, last_ls_query, returned, op, args, out>>

NoArgs ==
    [runs |-> NoneArg, level |-> "", oldest_run |-> 0, newest_run |-> 0,
     step |-> 0, json |-> [data |-> <<>>], extrafilters |-> <<>>,
     limit_entries |-> 0, resps |-> <<>>]

NoOut ==
    [status |-> "ok", ranges |-> <<>>, warnings |-> <<>>, events |-> <<>>,
     client |-> <<>>, consumed |-> 0, json |-> [data |-> <<>>], df |-> NoneDF]

FetchOut(f) ==
    [NoOut EXCEPT !.status = f.status, !.events = f.events, !.client = f.client,
                  !.consumed = f.consumed, !.json = f.json, !.df = f.df]

\* oms_fetch.__init__ (lines 33-34): both fields None.
Init ==
    /\ last_run_query = NoneDF
    /\ last_ls_query = NoneDF
    /\ returned = [l \in Levels |-> NoneDF]
    /\ op = "__init__"
    /\ args = NoArgs
    /\ out = NoOut

Self == [last_run_query |-> last_run_query, last_ls_query |-> last_ls_query]

\* A call of subdivide_range(oldest_run, newest_run, step).
SubdivideRange ==
    \E s \in 0..MaxStart, e \in 0..(MaxStart + MaxSpan), step \in 1..MaxStep :
        /\ s <= e /\ e <= s + MaxSpan
        /\ op' = "subdivide_range"
        /\ args' = [NoArgs EXCEPT !.oldest_run = s, !.newest_run = e, !.step = step]
        /\ out' = [NoOut EXCEPT !.ranges = subdivide_range(s, e, step)]
        /\ UNCHANGED <<last_run_query, last_ls_query, returned>>

\* A call of makeDF(json).
MakeDF ==
    \E json \in Jsons :
        LET made == makeDF(json)
        IN  /\ op' = "makeDF"
            /\ args' = [NoArgs EXCEPT !.json = json]
            /\ out' = [NoOut EXCEPT !.status = made.status, !.df = made.df]
            /\ UNCHANGED <<last_run_query, last_ls_query, returned>>

\* A call of oms_fetch.get_oms_json(api_endpoint, runnb, extrafilters,
\* limit_entries=...), the service answering with json.
GetOmsJson ==
    \E runnb \in Runnbs, extrafilters \in FilterLists :
        LET got == get_oms_json("runs", runnb, extrafilters, <<>>, 1000, SomeJson)
        IN  /\ op' = "get_oms_json"
            /\ args' = [NoArgs EXCEPT !.level = "runs", !.runs = runnb,
                                      !.extrafilters = extrafilters,
                                      !.limit_entries = 1000,
                                      !.resps = IF got.client = <<>> THEN <<>>
                                                ELSE <<SomeJson>>]
            /\ out' = [NoOut EXCEPT !.status = got.status, !.warnings = got.warnings,
                                    !.client = got.client, !.json = got.json]
            /\ UNCHANGED <<last_run_query, last_ls_query, returned>>

\* A call of oms_fetch.get_oms_data(runs, attribs_level) on the instance.
GetOmsData ==
    \E level \in Levels :
      \E runs \in RunsArgs(level) :
        \E resps \in ResponsesFor(get_oms_data(Self, runs, level, <<>>, <<>>, Plenty).out.consumed) :
          LET got == get_oms_data(Self, runs, level, <<>>, <<>>, resps)
          IN  /\ Unread(resps, got.out.consumed)
              /\ op' = "get_oms_data"
              /\ args' = [NoArgs EXCEPT !.level = level, !.runs = runs,
                                        !.resps = SubSeq(resps, 1, got.out.consumed)]
              /\ out' = FetchOut(got.out)
              /\ last_run_query' = got.self.last_run_query
              /\ last_ls_query' = got.self.last_ls_query
              /\ returned' = IF got.out.status = "ok"
                             THEN [returned EXCEPT ![level] = got.out.df]
                             ELSE returned

\* A call of download_oms_data(runs, omsapi, attribs_level).
DownloadOmsData ==
    \E level \in Levels :
      \E runs \in RunsArgs(level) :
        \E resps \in ResponsesFor(download_oms_data(runs, level, <<>>, <<>>, Plenty).consumed) :
          LET got == download_oms_data(runs, level, <<>>, <<>>, resps)
          IN  /\ Unread(resps, got.consumed)
              /\ op' = "download_oms_data"
              /\ args' = [NoArgs EXCEPT !.level = level, !.runs = runs,
                                        !.resps = SubSeq(resps, 1, got.consumed)]
              /\ out' = FetchOut(got)
              /\ UNCHANGED <<last_run_query, last_ls_query, returned>>

\* The functions that fetch nothing by themselves.
NextUtils ==
    \/ SubdivideRange
    \/ MakeDF
    \/ GetOmsJson

\* The two fetch operations.
NextFetch ==
    \/ GetOmsData
    \/ DownloadOmsData

Next == NextUtils \/ NextFetch

Spec == Init /\ [][Next]_vars
SpecUtils == Init /\ [][NextUtils]_vars
SpecFetch == Init /\ [][NextFetch]_vars

TypeOK == op \in {"__init__", "subdivide_range", "makeDF", "get_oms_json",
                  "get_oms_data", "download_oms_data"}

\* ------------------------------------------------------------ the claims
IsFetch == op \in {"get_oms_data", "download_oms_data"}
Recognized(level) == level \in {"runs", "lumisections"}
IsPair(runs) == runs.kind = "tuple" /\ Len(runs.elems) = 2
Width(runs) == runs.elems[2] - runs.elems[1]

\* The limits the specification gives each level.
EntryLimitOf(level) == IF level = "runs" THEN 5000 ELSE 100000
RangeLimitOf(level) == IF level = "runs" THEN 5000 ELSE 1000

\* The Query Builder calls among the events, and the responses returned.
CallsIn(events) == SelectSeq(events, LAMBDA ev : ev.kind = "call")
ReturnsIn(events) == SelectSeq(events, LAMBDA ev : ev.kind = "return")

\* The sub-ranges among ranges that hold x.
Holding(ranges, x) == {i \in 1..Len(ranges) : ranges[i][1] <= x /\ x <= ranges[i][2]}

\* C1: for e - s > step, the sub-ranges subdivide_range(s, e, step) returns
\* partition [s, e] exactly: every integer of [s, e], e included, lies in
\* exactly one sub-range, and no sub-range reaches outside [s, e].
C1_ExactPartition ==
    (op = "subdivide_range" /\ args.newest_run - args.oldest_run > args.step) =>
        /\ \A x \in args.oldest_run..args.newest_run :
              Cardinality(Holding(out.ranges, x)) = 1
        /\ \A i \in 1..Len(out.ranges) :
              /\ args.oldest_run <= out.ranges[i][1]
              /\ out.ranges[i][1] <= out.ranges[i][2]
              /\ out.ranges[i][2] <= args.newest_run

\* C1, the part the code satisfies: the partition is exact whenever e - s
\* is not a multiple of step.
C1_ExactUnlessMultiple ==
    (op = "subdivide_range"
        /\ (args.newest_run - args.oldest_run) % args.step # 0) => C1_ExactPartition

RECURSIVE RowsOfAll(_)
\* The rows of the tables flattened from a sequence of responses, in order.
RowsOfAll(jsons) ==
    IF jsons = <<>> THEN <<>>
    ELSE makeDF(Head(jsons)).df.rows \o RowsOfAll(Tail(jsons))

\* The rows of a returned frame without the column reset_index put first.
DataRows(df) == [i \in 1..Len(df.rows) |-> Tail(df.rows[i])]

\* C2: for a recognized level and a pair wider than the range limit, the
\* fetch issues exactly one Query Builder call per sub-range of the
\* partition, in ascending order, each returning before the next is issued,
\* and returns the per-sub-range tables concatenated in that order.
C2_OneCallPerSubRange ==
    (IsFetch /\ Recognized(args.level) /\ IsPair(args.runs)
        /\ Width(args.runs) > RangeLimitOf(args.level)) =>
        LET parts == subdivide_range(args.runs.elems[1], args.runs.elems[2],
                                     RangeLimitOf(args.level))
        IN  /\ out.status = "ok"
            /\ Len(out.events) = 2 * Len(parts)
            /\ \A i \in 1..Len(parts) :
                  /\ out.events[2 * i - 1] =
                        CallEvent(args.level, TupleArg(parts[i]), EntryLimitOf(args.level))
                  /\ out.events[2 * i].kind = "return"
            /\ \A i \in 1..(Len(parts) - 1) : parts[i][1] < parts[i + 1][1]
            /\ ~out.df.isNone
            /\ DataRows(out.df) =
                  RowsOfAll([i \in 1..Len(parts) |-> out.events[2 * i].json])

\* C2, the part the code satisfies: download_oms_data does all of it when
\* every response has a record.
C2_DownloadWithRecords ==
    (op = "download_oms_data"
        /\ \A i \in 1..Len(args.resps) : args.resps[i].data # <<>>) =>
        C2_OneCallPerSubRange

\* C3: for a recognized level and a pair no wider than the range limit
\* (5000 for runs, 1000 for lumisections), the fetch issues exactly one Query
\* Builder call, for the whole pair, with the level's entry limit (5000 for
\* runs, 100000 for lumisections) as page size.
C3_SingleCall ==
    (IsFetch /\ Recognized(args.level) /\ IsPair(args.runs)
        /\ Width(args.runs) <= RangeLimitOf(args.level)) =>
        /\ CallsIn(out.events) =
              <<CallEvent(args.level, args.runs, EntryLimitOf(args.level))>>
        /\ Len(ReturnsIn(out.events)) = 1
        /\ op = "get_oms_data" =>
              /\ Len(out.client) = 1
              /\ out.client[1].endpoint = args.level
              /\ out.client[1].page = 1
              /\ out.client[1].per_page = EntryLimitOf(args.level)
              /\ out.client[1].filters =
                    <<[attribute_name |-> "run_number",
                       value |-> ToString(args.runs.elems[1]), operator |-> "GE"],
                      [attribute_name |-> "run_number",
                       value |-> ToString(args.runs.elems[2]), operator |-> "LE"]>>

\* get_oms_data has made its single call for a range exactly as wide as the
\* range limit of lumisections, and returned the table.
C3_Witness ==
    /\ op = "get_oms_data" /\ args.level = "lumisections" /\ IsPair(args.runs)
    /\ Width(args.runs) = 1000
    /\ Len(out.events) = 2
    /\ out.status = "ok"

\* C4: flattening a response with no records gives a table of zero rows and
\* raises nothing.
C4_EmptyGivesNoRows ==
    (op = "makeDF" /\ args.json.data = <<>>) =>
        /\ out.status = "ok"
        /\ ~out.df.isNone
        /\ out.df.rows = <<>>

\* C4, its consequence: a fetch in which a call returns no records still
\* completes and returns a table.
C4_FetchSurvivesEmpty ==
    (IsFetch /\ \E i \in 1..Len(out.events) :
                    out.events[i].kind = "return" /\ out.events[i].json.data = <<>>) =>
        out.status = "ok" /\ ~out.df.isNone

\* The filters the specification derives from runnb: none for None, one EQ
\* for an int, GE then LE for a pair, none for any other value.
RangeFiltersOf(runnb) ==
    IF runnb.kind = "int"
    THEN <<[attribute_name |-> "run_number", value |-> ToString(runnb.elems[1]),
            operator |-> "EQ"]>>
    ELSE IF runnb.kind \in {"tuple", "list"} /\ Len(runnb.elems) = 2
    THEN <<[attribute_name |-> "run_number", value |-> ToString(runnb.elems[1]),
            operator |-> "GE"],
           [attribute_name |-> "run_number", value |-> ToString(runnb.elems[2]),
            operator |-> "LE"]>>
    ELSE <<>>

\* runnb is neither None, nor an int, nor a pair.
OtherRunnb(runnb) ==
    /\ runnb.kind \notin {"None", "int"}
    /\ ~(runnb.kind \in {"tuple", "list"} /\ Len(runnb.elems) = 2)

RunnbWarnings(warnings) == SelectSeq(warnings, LAMBDA w : w.about = "runnb")
FilterWarnings(warnings) == SelectSeq(warnings, LAMBDA w : w.about = "filter")

\* C5: the filters get_oms_json passes to the client are the range-derived
\* filters followed by the caller's, the range-derived ones being none for
\* None, one EQ for an int, GE then LE for a pair, and none, with a warning
\* and no error, for any other value.
C5_FilterList ==
    op = "get_oms_json" =>
        /\ out.status = "ok"
        /\ Len(out.client) = 1
        /\ out.client[1].filters = RangeFiltersOf(args.runs) \o args.extrafilters
        /\ Len(RunnbWarnings(out.warnings)) = (IF OtherRunnb(args.runs) THEN 1 ELSE 0)

\* C5, the part the code satisfies: every runnb but a tuple or list that is
\* not a pair.
C5_FilterListUnlessOddLength ==
    ~(args.runs.kind \in {"tuple", "list"} /\ Len(args.runs.elems) # 2) =>
        C5_FilterList

\* C6: for an unrecognized level and an int or a pair, the fetch fails with
\* the unsupported-level error, issues no Query Builder call and returns no
\* table.
C6_UnsupportedLevel ==
    (IsFetch /\ ~Recognized(args.level)
        /\ (args.runs.kind = "int" \/ IsPair(args.runs))) =>
        /\ out.status = "Exception"
        /\ out.events = <<>>
        /\ out.client = <<>>
        /\ out.df.isNone

\* C6, the part the code satisfies: get_oms_data for an int or a pair,
\* download_oms_data for a pair; and no fetch at an unrecognized level issues
\* a call or returns a table.
C6_UnlessDownloadOfInt ==
    /\ (op = "get_oms_data" \/ IsPair(args.runs)) => C6_UnsupportedLevel
    /\ (IsFetch /\ ~Recognized(args.level)) =>
          (out.status # "ok" /\ out.events = <<>> /\ out.df.isNone)

\* C7: for a recognized level, a fetch called with the int n behaves as when
\* called with the pair (n, n): it issues the single Query Builder call for
\* (n, n) and returns what the call with the pair returns for the same
\* response; this holds for get_oms_data and for download_oms_data.
C7_IntIsPair ==
    (IsFetch /\ Recognized(args.level) /\ args.runs.kind = "int") =>
        LET n == args.runs.elems[1]
            pair == TupleArg(<<n, n>>)
        IN  /\ CallsIn(out.events) =
                  <<CallEvent(args.level, pair, EntryLimitOf(args.level))>>
            /\ \E json \in ServiceJsons :
                  out = FetchOut(IF op = "get_oms_data"
                                 THEN get_oms_data(Self, pair, args.level, <<>>, <<>>,
                                                   <<json>>).out
                                 ELSE download_oms_data(pair, args.level, <<>>, <<>>,
                                                        <<json>>))

\* C7, the part the code satisfies: oms_fetch.get_oms_data.
C7_GetOmsDataIntIsPair == op = "get_oms_data" => C7_IntIsPair

\* The caller's filters whose key set is not {attribute_name, value, operator}.
Malformed(extrafilters) ==
    SelectSeq(extrafilters,
              LAMBDA f : DOMAIN f # {"attribute_name", "value", "operator"})

\* The last n items of a sequence.
LastN(q, n) == SubSeq(q, Len(q) - n + 1, Len(q))

\* C8: whatever filters the caller passes to get_oms_json (runnb being None,
\* an int, a tuple or list of two or more, or a value of another type), each
\* filter whose keys are not exactly the three expected ones causes exactly
\* one warning, for that filter, and no exception, and every caller filter,
\* malformed or not, is in the list sent to the client, unchanged and in the
\* caller's order.
C8_MalformedFiltersForwarded ==
    (op = "get_oms_json"
        /\ ~(args.runs.kind \in {"tuple", "list"} /\ Len(args.runs.elems) < 2)) =>
        /\ out.status = "ok"
        /\ Len(out.client) = 1
        /\ Len(out.client[1].filters) >= Len(args.extrafilters)
        /\ LastN(out.client[1].filters, Len(args.extrafilters)) = args.extrafilters
        /\ FilterWarnings(out.warnings) =
              [i \in 1..Len(Malformed(args.extrafilters)) |->
                  [about |-> "filter", filter |-> <<Malformed(args.extrafilters)[i]>>]]

\* get_oms_json has been given two malformed filters, one with a key missing
\* and one with a key too many, and has warned of each.
C8_Witness ==
    /\ op = "get_oms_json"
    /\ args.extrafilters = <<ShortFilter, LongFilter>>
    /\ Len(FilterWarnings(out.warnings)) = 2
    /\ Len(out.client) = 1

SameKeySets(data) == \A i \in 1..Len(data) : KeySet(data[i]) = KeySet(data[1])
SameKeyOrder(data) == \A i \in 1..Len(data) : Keys(data[i]) = Keys(data[1])

\* What the claim says of the table flattened from N >= 1 records of K keys:
\* N rows, K columns named by the first record's keys, and in row i under
\* column k record i's value for k.
FlattenedRight(data, result) ==
    /\ result.status = "ok"
    /\ Len(result.df.rows) = Len(data)
    /\ result.df.columns = Keys(data[1])
    /\ \A i \in 1..Len(data) :
          /\ Len(result.df.rows[i]) = Len(data[1])
          /\ \A j \in 1..Len(data[1]) :
                result.df.rows[i][j] = Lookup(data[i], result.df.columns[j])

\* C9 as stated: flattening N >= 1 records that all have the same K keys
\* gives N rows and K columns, named by the first record's keys, the cell of
\* row i under column k being record i's value for k.
C9_SameKeys ==
    (op = "makeDF" /\ Len(args.json.data) >= 1 /\ SameKeySets(args.json.data)) =>
        FlattenedRight(args.json.data, out)

\* C9 as amended: the same, for records that all have the same K keys in the
\* same order.
C9_SameKeysSameOrder ==
    (op = "makeDF" /\ Len(args.json.data) >= 1 /\ SameKeyOrder(args.json.data)) =>
        FlattenedRight(args.json.data, out)

\* makeDF has flattened two records of two keys in the same order, with
\* different values.
C9_Witness ==
    /\ op = "makeDF"
    /\ Len(args.json.data) = 2
    /\ Len(args.json.data[1]) = 2
    /\ SameKeyOrder(args.json.data)
    /\ args.json.data[1] # args.json.data[2]
    /\ Len(out.df.rows) = 2

\* C10: last_run_query is the table the most recent successful get_oms_data
\* call at level "runs" returned, last_ls_query that of the most recent
\* successful call at level "lumisections", each None when there was none; so
\* a successful call leaves the other level's field as it was, and a failed
\* call both.
C10_LastQueries ==
    /\ last_run_query = returned["runs"]
    /\ last_ls_query = returned["lumisections"]

\* Both fields hold a table, not the same one, and a call has just failed.
C10_Witness ==
    /\ op = "get_oms_data"
    /\ out.status # "ok"
    /\ ~last_run_query.isNone
    /\ ~last_ls_query.isNone
    /\ last_run_query # last_ls_query

=============================================================================
